---------------------------- MODULE Spec2Model ----------------------------
(***************************************************************************)
(* Countdown-timer detection of analysis/timer-analysis/                   *)
(* CountdownTimerAnalysis.ipynb: the preprocessing of segment              *)
(* observations, the two "decreasing series" heuristics, the grouping of   *)
(* detect_timers and the cached entry point get_timers.                    *)
(*                                                                         *)
(* Texts are sequences of one-character strings, so that the regular       *)
(* expression substitutions and int() are computed, not assumed.  A call   *)
(* that raises is modelled by the name of the exception ("ValueError",    *)
(* "TypeError") in place of a result.  Python's True / False are the       *)
(* strings "True" / "False" wherever a call may also raise.  Where the     *)
(* interpreter decides between results, an operator gives the set of them. *)
(***************************************************************************)
EXTENDS Integers, Sequences, FiniteSets, TLC

VARIABLES
    series,           \* the argument handed to is_decreasing / is_decreasing_mode
    dec,              \* outcome of the last is_decreasing(series) call
    dec_mode,         \* outcome of the last is_decreasing_mode(series) call
    db,               \* rows of SEGMENTS joined with site_visits, in row order
    segments_pickle,  \* the file <crawler>_segments.pickle
    grouped_pickle,   \* the file <crawler>_grouped_segments.pickle
    timer_urls,       \* the file <crawler>_timer_urls.csv
    segments,         \* the preprocessed frame last handed to detect_timers
    limit_arg,        \* the limit of that call (0 stands for None)
    outcome,          \* how the last call ended
    timers,           \* first table returned by the last call
    grouped_segments  \* second table returned by the last call

series_vars == <<series, dec, dec_mode>>

pipeline_vars == <<db, segments_pickle, grouped_pickle, timer_urls, segments,
                   limit_arg, outcome, timers, grouped_segments>>

vars == <<series_vars, pipeline_vars>>

-----------------------------------------------------------------------------
(* Program constants *)

TIMER_MIN_NEG_POS_UPDATE_RATIO == 5

TIMER_MIN_NO_OF_NEG_UPDATES == 5

\* literal 5 of is_decreasing_mode: "if len(set(series)) < 5"
MIN_DISTINCT_VALUES == 5

\* literal 5 of is_decreasing_mode: "if neg_mode_cnt < 5"
MIN_NEG_MODE_CNT == 5

\* the list [59, 5, 9] of "diff not in [59, 5, 9]"
ROLLOVER_DIFFS == {59, 5, 9}

ValueError == "ValueError"

\* the exception int() raises on a value that is no number and no string
TypeError == "TypeError"

None == "None"

Unset == "unset"

-----------------------------------------------------------------------------
(* Characters and int() *)

DigitChars == {"0", "1", "2", "3", "4", "5", "6", "7", "8", "9"}

DigitVal(c) ==
    CASE c = "0" -> 0 [] c = "1" -> 1 [] c = "2" -> 2 [] c = "3" -> 3
      [] c = "4" -> 4 [] c = "5" -> 5 [] c = "6" -> 6 [] c = "7" -> 7
      [] c = "8" -> 8 [] c = "9" -> 9

\* int(s) raises ValueError on the empty string and on a non-digit character
\* (signs, blanks and underscores do not occur in the strings modelled)
int_raises(s) == s = <<>> \/ \E i \in DOMAIN s : s[i] \notin DigitChars

RECURSIVE digits_value(_)
digits_value(s) ==
    IF s = <<>> THEN 0
    ELSE 10 * digits_value(SubSeq(s, 1, Len(s) - 1)) + DigitVal(s[Len(s)])

int(s) == IF int_raises(s) THEN ValueError ELSE digits_value(s)

-----------------------------------------------------------------------------
(* Helpers of the heuristics *)

\* the list comprehension calls int() on every element as soon as there is
\* one pair; with fewer than two elements zip() is empty and nothing is parsed
differences_raises(series_) ==
    /\ Len(series_) >= 2
    /\ \E k \in DOMAIN series_ : int_raises(series_[k])

\* [int(j) - int(i) for i, j in zip(series[:-1], series[1:])]
RECURSIVE pair_differences(_)
pair_differences(s) ==
    IF Len(s) < 2 THEN <<>>
    ELSE <<digits_value(s[2]) - digits_value(s[1])>> \o pair_differences(Tail(s))

differences(series_) ==
    IF differences_raises(series_) THEN ValueError
    ELSE pair_differences(series_)

\* list.count / the counts of Counter
count(diffs, v) == Cardinality({k \in DOMAIN diffs : diffs[k] = v})

\* Counter(diffs).most_common(1)[0][0]: the values a build can return.  The
\* value has a maximal count.  Among values of equal count the interpreter
\* decides: max() takes the first of them in the iteration order of the
\* Counter, which is the order of first occurrence from CPython 3.6 on and the
\* order of the hash slots under the Python 2.7 the notebook records
\* (most_common([-1, 1]) is -1 on the former, 1 on the latter).  Every value of
\* maximal count is allowed.
most_common(diffs) ==
    IF diffs = <<>> THEN {None}
    ELSE {diffs[i] : i \in {k \in DOMAIN diffs :
                               \A j \in DOMAIN diffs :
                                   count(diffs, diffs[j]) <= count(diffs, diffs[k])}}

\* the values a build can return, as for most_common
most_common_neg(diffs) ==
    IF diffs = <<>> THEN {None}
    ELSE LET neg_diffs == SelectSeq(diffs, LAMBDA x : x < 0)
         IN  IF neg_diffs = <<>> THEN {None} ELSE most_common(neg_diffs)

\* diffs.count(neg_mode): the same for every value most_common_neg can return
num_most_common_neg(diffs) ==
    LET neg_diffs == SelectSeq(diffs, LAMBDA x : x < 0)
    IN  IF diffs = <<>> \/ neg_diffs = <<>> THEN 0
        ELSE count(diffs, CHOOSE neg_mode \in most_common_neg(diffs) : TRUE)

\* variant: the exclusion list tested against the size of the diff
\* ("abs(diff) not in [59, 5, 9]")
n_negs_excluding_rollovers(diffs) ==
    Cardinality({k \in DOMAIN diffs :
                    diffs[k] < 0 /\ (0 - diffs[k]) \notin ROLLOVER_DIFFS})

\* sum([1 for diff in diffs if diff<0 and diff not in [59, 5, 9]])
n_negs_of(diffs) ==
    Cardinality({k \in DOMAIN diffs : diffs[k] < 0 /\ diffs[k] \notin ROLLOVER_DIFFS})

n_pos_of(diffs) == Cardinality({k \in DOMAIN diffs : diffs[k] > 0})

\* len(set(series))
num_unique(series_) == Cardinality({series_[k] : k \in DOMAIN series_})

PyBool(b) == IF b THEN "True" ELSE "False"

-----------------------------------------------------------------------------
(* Heuristic A *)

\* is_decreasing with the ratio compared by >= instead of >
is_decreasing_ratio_ge(series_) ==
    IF differences_raises(series_) THEN ValueError
    ELSE LET diffs  == differences(series_)
             n_negs == n_negs_of(diffs)
             n_pos  == n_pos_of(diffs)
         IN  IF diffs = <<>> THEN "False"
             ELSE IF n_negs < TIMER_MIN_NO_OF_NEG_UPDATES THEN "False"
             ELSE IF n_pos = 0 THEN "True"
             ELSE PyBool(n_negs >= TIMER_MIN_NEG_POS_UPDATE_RATIO * n_pos)

\* is_decreasing demanding more than the minimum number of decreases
is_decreasing_min_exclusive(series_) ==
    IF differences_raises(series_) THEN ValueError
    ELSE LET diffs  == differences(series_)
             n_negs == n_negs_of(diffs)
             n_pos  == n_pos_of(diffs)
         IN  IF diffs = <<>> THEN "False"
             ELSE IF n_negs <= TIMER_MIN_NO_OF_NEG_UPDATES THEN "False"
             ELSE IF n_pos = 0 THEN "True"
             ELSE PyBool(n_negs > TIMER_MIN_NEG_POS_UPDATE_RATIO * n_pos)

\* variant: a diff of 0 counted with the increases ("diff>=0")
is_decreasing_zero_is_increase(series_) ==
    IF differences_raises(series_) THEN ValueError
    ELSE LET diffs  == differences(series_)
             n_negs == n_negs_of(diffs)
             n_pos  == Cardinality({k \in DOMAIN diffs : diffs[k] >= 0})
         IN  IF diffs = <<>> THEN "False"
             ELSE IF n_negs < TIMER_MIN_NO_OF_NEG_UPDATES THEN "False"
             ELSE IF n_pos = 0 THEN "True"
             ELSE PyBool(n_negs > TIMER_MIN_NEG_POS_UPDATE_RATIO * n_pos)

is_decreasing(series_) ==
    IF differences_raises(series_) THEN ValueError
    ELSE LET diffs  == differences(series_)
             n_negs == n_negs_of(diffs)
             n_pos  == n_pos_of(diffs)
         IN  IF diffs = <<>> THEN "False"
             ELSE IF n_negs < TIMER_MIN_NO_OF_NEG_UPDATES THEN "False"
             ELSE IF n_pos = 0 THEN "True"
             \* float(n_negs) / n_pos > RATIO, n_pos > 0
             ELSE PyBool(n_negs > TIMER_MIN_NEG_POS_UPDATE_RATIO * n_pos)

(* Heuristic B *)

\* is_decreasing_mode rejecting a mode of 0 as well ("mode >= 0")
is_decreasing_mode_rejects_zero(series_) ==
    IF differences_raises(series_) THEN {ValueError}
    ELSE LET diffs  == differences(series_)
             n_negs == n_negs_of(diffs)
             n_pos  == n_pos_of(diffs)
             rest   == IF num_most_common_neg(diffs) < MIN_NEG_MODE_CNT THEN "False"
                       ELSE PyBool(n_negs > n_pos)
         IN  IF diffs = <<>> THEN {"False"}
             ELSE IF num_unique(series_) < MIN_DISTINCT_VALUES THEN {"False"}
             ELSE IF n_negs < TIMER_MIN_NO_OF_NEG_UPDATES THEN {"False"}
             ELSE IF n_pos = 0 THEN {"True"}
             ELSE {IF mode >= 0 THEN "False" ELSE rest : mode \in most_common(diffs)}

\* variant: the floor on distinct values applied to the diffs
\* ("len(set(diffs)) < 5")
is_decreasing_mode_distinct_diffs(series_) ==
    IF differences_raises(series_) THEN {ValueError}
    ELSE LET diffs  == differences(series_)
             n_negs == n_negs_of(diffs)
             n_pos  == n_pos_of(diffs)
             rest   == IF num_most_common_neg(diffs) < MIN_NEG_MODE_CNT THEN "False"
                       ELSE PyBool(n_negs > n_pos)
         IN  IF diffs = <<>> THEN {"False"}
             ELSE IF num_unique(diffs) < MIN_DISTINCT_VALUES THEN {"False"}
             ELSE IF n_negs < TIMER_MIN_NO_OF_NEG_UPDATES THEN {"False"}
             ELSE IF n_pos = 0 THEN {"True"}
             ELSE {IF mode > 0 THEN "False" ELSE rest : mode \in most_common(diffs)}

\* the results a build can return: one, unless values of equal count decide
\* "if mode > 0" (see most_common)
is_decreasing_mode(series_) ==
    IF differences_raises(series_) THEN {ValueError}
    ELSE LET diffs  == differences(series_)
             n_negs == n_negs_of(diffs)
             n_pos  == n_pos_of(diffs)
             rest   == IF num_most_common_neg(diffs) < MIN_NEG_MODE_CNT THEN "False"
                       ELSE PyBool(n_negs > n_pos)
         IN  IF diffs = <<>> THEN {"False"}
             ELSE IF num_unique(series_) < MIN_DISTINCT_VALUES THEN {"False"}
             ELSE IF n_negs < TIMER_MIN_NO_OF_NEG_UPDATES THEN {"False"}
             ELSE IF n_pos = 0 THEN {"True"}
             ELSE {IF mode > 0 THEN "False" ELSE rest : mode \in most_common(diffs)}

-----------------------------------------------------------------------------
(* Preprocessor *)

\* sub-second resolution of the recorded time stamps
TicksPerSecond == 2

\* literal 5 of ts_check: "n_uniq_ts_seconds >= 5"
MIN_DISTINCT_SECONDS == 5

DPNUM == <<"D", "P", "N", "U", "M">>

RECURSIVE drop_leading_digits(_)
drop_leading_digits(x) ==
    IF x # <<>> /\ Head(x) \in DigitChars THEN drop_leading_digits(Tail(x)) ELSE x

\* variant: re.sub(r'\d+', 'DPNUM', x, count=1), only the first run replaced
RECURSIVE replace_first_digit_run(_)
replace_first_digit_run(x) ==
    IF x = <<>> THEN <<>>
    ELSE IF Head(x) \in DigitChars
         THEN DPNUM \o drop_leading_digits(Tail(x))
         ELSE <<Head(x)>> \o replace_first_digit_run(Tail(x))

\* re.sub(r'\d+', 'DPNUM', x)
RECURSIVE replace_digit_runs(_)
replace_digit_runs(x) ==
    IF x = <<>> THEN <<>>
    ELSE IF Head(x) \in DigitChars
         THEN DPNUM \o replace_digit_runs(drop_leading_digits(Tail(x)))
         ELSE <<Head(x)>> \o replace_digit_runs(Tail(x))

\* re.sub(r'\D+', '', x)
remove_non_digits(x) == SelectSeq(x, LAMBDA c : c \in DigitChars)

\* pd.to_datetime of a recorded stamp "<s>.<f>": the instant in ticks
to_datetime(stamp) == stamp.s * TicksPerSecond + stamp.f

preprocess_row(r) ==
    [site_url        |-> r.site_url,
     visit_id        |-> r.visit_id,
     node_id         |-> r.node_id,
     top             |-> r.top,
     left            |-> r.left,
     inner_text      |-> r.inner_text,
     time_stamp      |-> to_datetime(r.time_stamp),
     inner_processed |-> replace_digit_runs(r.inner_text),
     inner_digits    |-> remove_non_digits(r.inner_text)]

RECURSIVE preprocess_segments(_)
preprocess_segments(rows) ==
    IF rows = <<>> THEN <<>>
    ELSE <<preprocess_row(Head(rows))>> \o preprocess_segments(Tail(rows))

-----------------------------------------------------------------------------
(* Timer detector *)

\* int(ts) of a time stamp of the preprocessed frame.  The column holds the
\* datetimes pd.to_datetime made of the recorded stamps, and int() of a
\* datetime raises TypeError
ts_seconds(ts) == TypeError

\* ts_check(series): the exception of the first int(ts) that raises, else
\* whether there are 5 distinct values
ts_check(stamps) ==
    LET seconds == [k \in DOMAIN stamps |-> ts_seconds(stamps[k])]
    IN  IF \E k \in DOMAIN stamps : seconds[k] = TypeError THEN TypeError
        ELSE PyBool(Cardinality({seconds[k] : k \in DOMAIN stamps})
                        >= MIN_DISTINCT_SECONDS)

\* segments.head(limit)
head(rows, n) == SubSeq(rows, 1, IF n < Len(rows) THEN n ELSE Len(rows))

\* groupby(['visit_id', 'top', 'left', 'inner_processed'])
group_key(r) ==
    [visit_id |-> r.visit_id, top |-> r.top, left |-> r.left,
     inner_processed |-> r.inner_processed]

\* the rows of one group, in the row order of the frame
group_rows(rows, key) == SelectSeq(rows, LAMBDA r : group_key(r) = key)

RECURSIVE column_inner_digits(_)
column_inner_digits(rows) ==
    IF rows = <<>> THEN <<>>
    ELSE <<Head(rows).inner_digits>> \o column_inner_digits(Tail(rows))

RECURSIVE column_time_stamp(_)
column_time_stamp(rows) ==
    IF rows = <<>> THEN <<>>
    ELSE <<Head(rows).time_stamp>> \o column_time_stamp(Tail(rows))

RECURSIVE column_node_id(_)
column_node_id(rows) ==
    IF rows = <<>> THEN <<>>
    ELSE <<Head(rows).node_id>> \o column_node_id(Tail(rows))

\* what the aggregations give for one group: the value each function returns
\* or the exception it raises; for is_decreasing_mode the results a build can
\* return
aggregate(rows, key) ==
    LET g == group_rows(rows, key)
    IN  [visit_id_                       |-> key.visit_id,
         top_                            |-> key.top,
         left_                           |-> key.left,
         inner_processed_                |-> key.inner_processed,
         node_id_num_unique              |-> num_unique(column_node_id(g)),
         time_stamp_ts_check             |-> ts_check(column_time_stamp(g)),
         inner_digits_is_decreasing      |-> is_decreasing(column_inner_digits(g)),
         inner_digits_is_decreasing_mode |-> is_decreasing_mode(column_inner_digits(g)),
         site_url_first                  |-> g[1].site_url]

\* the boolean-mask selection of the timers
select_timers(grouped) ==
    {g \in grouped : /\ g.inner_digits_is_decreasing
                     /\ g.inner_digits_is_decreasing_mode
                     /\ g.time_stamp_ts_check}

\* detect_timers(segments, limit).  raises holds the exceptions that can
\* leave the call, none when it returns.  agg applies the functions column by
\* column, each to every group, in the iteration order of the dict of
\* aggregations, and the first exception ends the call.  That order is the
\* interpreter's: time_stamp comes before inner_digits under the notebook's
\* Python 2.7 and from CPython 3.6 on, inner_digits can come first under hash
\* randomisation (python -R).  Every group holds a row, so ts_check raises
\* whenever there is a group: the call returns tables for a frame without
\* rows only, and the tables are empty.  The heuristics raise on digit
\* strings that do not parse, which no row of SEGMENTS_QUERY has
detect_timers(rows, limit) ==
    LET tmp     == IF limit # 0 THEN head(rows, limit) ELSE rows
        keys    == {group_key(tmp[k]) : k \in DOMAIN tmp}
        groups  == {aggregate(tmp, key) : key \in keys}
        by_time_stamp   == IF \E a \in groups : a.time_stamp_ts_check = TypeError
                           THEN {TypeError} ELSE {}
        by_inner_digits == IF \E a \in groups :
                                  \/ a.inner_digits_is_decreasing = ValueError
                                  \/ ValueError \in a.inner_digits_is_decreasing_mode
                           THEN {ValueError} ELSE {}
        time_stamp_first   == IF by_time_stamp # {} THEN by_time_stamp
                              ELSE by_inner_digits
        inner_digits_first == IF by_inner_digits # {} THEN by_inner_digits
                              ELSE by_time_stamp
        raises  == time_stamp_first \cup inner_digits_first
        grouped == {}
    IN  [raises |-> raises,
         timers |-> IF raises = {} THEN select_timers(grouped) ELSE {},
         segments_grouped |-> grouped]

-----------------------------------------------------------------------------
(* Loading and the cached entry point *)

NoFile == [exists |-> FALSE, data |-> <<>>]

File(data) == [exists |-> TRUE, data |-> data]

\* the columns SEGMENTS_QUERY selects
select_columns(r) ==
    [site_url |-> r.site_url, visit_id |-> r.visit_id, node_id |-> r.node_id,
     top |-> r.top, left |-> r.left, inner_text |-> r.inner_text,
     time_stamp |-> r.time_stamp]

RECURSIVE all_rows(_)
all_rows(table) ==
    IF table = <<>> THEN <<>>
    ELSE <<select_columns(Head(table))>> \o all_rows(Tail(table))

\* WHERE se.node_name != 'BODY' and se.inner_text GLOB '*[0-9]*'
SEGMENTS_QUERY(table) ==
    all_rows(SelectSeq(table, LAMBDA r :
        /\ r.node_name # "BODY"
        /\ \E i \in DOMAIN r.inner_text : r.inner_text[i] \in DigitChars))

\* the frame load_segments(crawler_name, check_cache, dump_pickle) returns:
\* the pickled frame if there is one and check_cache, else the query result
load_segments(table, pickle, check_cache) ==
    IF check_cache /\ pickle.exists THEN pickle.data ELSE SEGMENTS_QUERY(table)

\* the segments pickle after load_segments
load_segments_pickle(table, pickle, check_cache, dump_pickle) ==
    IF check_cache /\ pickle.exists THEN pickle
    ELSE IF dump_pickle THEN File(SEGMENTS_QUERY(table)) ELSE pickle

\* pd.Series(timers.site_url_first.unique())
site_urls(ts) == {t.site_url_first : t \in ts}

\* load_segments called alone
LoadSegments(check_cache, dump_pickle) ==
    /\ segments' = load_segments(db, segments_pickle, check_cache)
    /\ segments_pickle' = load_segments_pickle(db, segments_pickle, check_cache,
                                               dump_pickle)
    /\ outcome' = "loaded"
    /\ UNCHANGED <<db, grouped_pickle, timer_urls, limit_arg, timers,
                   grouped_segments>>

\* dump_timer_urls(timers, crawler_name) called alone on the timers at hand
DumpTimerUrls ==
    /\ timer_urls' = File(site_urls(timers))
    /\ UNCHANGED <<db, segments_pickle, grouped_pickle, segments, limit_arg,
                   outcome, timers, grouped_segments>>

\* get_timers(crawler_name, disable_cache)
GetTimers(disable_cache) ==
    IF grouped_pickle.exists /\ ~disable_cache
    THEN /\ grouped_segments' = grouped_pickle.data
         /\ timers' = select_timers(grouped_pickle.data)
         /\ outcome' = "cached"
         /\ UNCHANGED <<db, segments_pickle, grouped_pickle, timer_urls,
                        segments, limit_arg>>
    ELSE LET loaded == load_segments(db, segments_pickle, TRUE)
             frame  == preprocess_segments(loaded)
             r      == detect_timers(frame, 0)
         IN  /\ segments_pickle' = load_segments_pickle(db, segments_pickle,
                                                        TRUE, TRUE)
             /\ segments' = frame
             /\ limit_arg' = 0
             /\ IF r.raises # {}
                THEN /\ outcome' \in r.raises
                     /\ UNCHANGED <<timers, grouped_segments, timer_urls,
                                    grouped_pickle>>
                ELSE /\ outcome' = "computed"
                     /\ timers' = r.timers
                     /\ grouped_segments' = r.segments_grouped
                     /\ timer_urls' = File(site_urls(r.timers))
                     /\ grouped_pickle' = File(r.segments_grouped)
             /\ UNCHANGED db

\* preprocess_segments and detect_timers(segments, limit) called on the frame
\* the query gives
DetectTimers(limit) ==
    LET frame == preprocess_segments(SEGMENTS_QUERY(db))
        r     == detect_timers(frame, limit)
    IN  /\ segments' = frame
        /\ limit_arg' = limit
        /\ IF r.raises # {}
           THEN /\ outcome' \in r.raises
                /\ UNCHANGED <<timers, grouped_segments>>
           ELSE /\ outcome' = "detected"
                /\ timers' = r.timers
                /\ grouped_segments' = r.segments_grouped
        /\ UNCHANGED <<db, segments_pickle, grouped_pickle, timer_urls>>

-----------------------------------------------------------------------------
(* Inputs of the heuristics: bounded families of digit-string series *)

\* longest run of one repeated update within a phase of a displayed number
MaxRun == 6

\* longest series enumerated exhaustively over DigitStrs
MaxLen == 3

\* longest sequence of updates enumerated exhaustively over Steps
MaxWalk == 6

\* changes of the displayed number between two consecutive observations
Steps == {-2, -1, 0, 1}

\* strings of the exhaustive family: empty, unpadded, zero-padded, no number
DigitStrs == {<<>>, <<"9">>, <<"0", "9">>, <<"1", "0">>, <<"0">>, <<"x">>}

DigitChar(d) ==
    CASE d = 0 -> "0" [] d = 1 -> "1" [] d = 2 -> "2" [] d = 3 -> "3"
      [] d = 4 -> "4" [] d = 5 -> "5" [] d = 6 -> "6" [] d = 7 -> "7"
      [] d = 8 -> "8" [] d = 9 -> "9"

\* a two-digit, zero-padded display of v in 0..99 ("09")
TwoDigits(v) == <<DigitChar(v \div 10), DigitChar(v % 10)>>

\* an update either changes the displayed number by d or blanks the text
Updates == [blank : {FALSE}, d : Steps] \cup [blank : {TRUE}, d : {0}]

Phases == [n : 0..MaxRun, u : Updates]

Unroll(p) == [k \in 1..p.n |-> p.u]

RECURSIVE Offset(_, _)
Offset(us, k) == IF k = 0 THEN 0 ELSE Offset(us, k - 1) + us[k].d

\* the series displayed by an element that starts at the least value keeping
\* every displayed number >= 0 and then applies the updates us in order
Displayed(us) ==
    LET lo    == CHOOSE m \in {Offset(us, k) : k \in 0..Len(us)} :
                     \A k \in 0..Len(us) : m <= Offset(us, k)
        start == 0 - lo
    IN  [k \in 1..(Len(us) + 1) |->
            IF k > 1 /\ us[k - 1].blank THEN <<>>
            ELSE TwoDigits(start + Offset(us, k - 1))]

ShortSeries == UNION {[1..n -> DigitStrs] : n \in 0..MaxLen}

\* longest run of one repeated jump within a phase of a displayed number
MaxRoll == 6

\* jumps of a clock field that rolls over (00 -> 59, 0 -> 9, 0 -> 5) or is
\* reset, in either direction
RolloverSteps == {-59, -9, -5, 5, 9, 50, 59}

RolloverPhases == [n : 0..MaxRoll, u : [blank : {FALSE}, d : RolloverSteps]]

\* the decimal display of v >= 0 without padding ("354")
RECURSIVE Decimal(_)
Decimal(v) ==
    IF v < 10 THEN <<DigitChar(v)>> ELSE Decimal(v \div 10) \o <<DigitChar(v % 10)>>

\* as Displayed, the numbers shown without padding
DisplayedUnpadded(us) ==
    LET lo    == CHOOSE m \in {Offset(us, k) : k \in 0..Len(us)} :
                     \A k \in 0..Len(us) : m <= Offset(us, k)
        start == 0 - lo
    IN  [k \in 1..(Len(us) + 1) |-> Decimal(start + Offset(us, k - 1))]

Walks == UNION {[1..n -> [blank : {FALSE}, d : Steps]] : n \in 0..MaxWalk}

-----------------------------------------------------------------------------
(* Inputs of the pipeline: bounded families of segment tables *)

\* longest countdown shown by the observed element
MaxCountdown == 6

SiteUrl(visit_id) == IF visit_id = 1 THEN "http://a.example/" ELSE "http://b.example/"

\* the recorded stamp of an instant given in ticks
Stamp(tick) == [s |-> tick \div TicksPerSecond, f |-> tick % TicksPerSecond]

TableRow(visit_id, node_id, node_name, top, left, inner_text, tick) ==
    [site_url |-> SiteUrl(visit_id), visit_id |-> visit_id, node_id |-> node_id,
     node_name |-> node_name, top |-> top, left |-> left,
     inner_text |-> inner_text, time_stamp |-> Stamp(tick)]

Reverse(q) == [k \in 1..Len(q) |-> q[Len(q) + 1 - k]]

\* how the element was observed: one observation every gap ticks; recreated
\* as another DOM node on every second observation when renode; the rows
\* stored newest first when newest_first
Observings ==
    {[gap |-> TicksPerSecond, renode |-> FALSE, newest_first |-> FALSE],
     [gap |-> 1,              renode |-> TRUE,  newest_first |-> FALSE],
     [gap |-> TicksPerSecond, renode |-> FALSE, newest_first |-> TRUE]}

\* an element at (visit 1, top 0, left 0) showing "<nn>s": it counts down n
\* times from n, then up m times
ElementRows(n, m, gap, renode, newest_first) ==
    LET shown == Displayed(Unroll([n |-> n, u |-> [blank |-> FALSE, d |-> -1]])
                           \o Unroll([n |-> m, u |-> [blank |-> FALSE, d |-> 1]]))
        rows  == [k \in DOMAIN shown |->
                     TableRow(1, IF renode /\ k % 2 = 0 THEN 2 ELSE 1, "DIV", 0, 0,
                              shown[k] \o <<"s">>, (k - 1) * gap)]
    IN  IF newest_first THEN Reverse(rows) ELSE rows

\* positions of other observations: the same place, another visit, another
\* top, another left
OtherPlaces ==
    {[visit_id |-> 1, top |-> 0, left |-> 0], [visit_id |-> 2, top |-> 0, left |-> 0],
     [visit_id |-> 1, top |-> 1, left |-> 0], [visit_id |-> 1, top |-> 0, left |-> 1]}

\* their texts: empty, the same template, another template, no digit
OtherTexts == {<<>>, <<"7", "s">>, <<"7", "m">>, <<"x">>}

OtherRow(place, text, tick) ==
    TableRow(place.visit_id, 3, "DIV", place.top, place.left, text, tick)

\* nothing, one observation, the page body, or two observations of one place
OtherRows ==
    {<<>>, <<TableRow(1, 4, "BODY", 0, 0, <<"7", "s">>, 0)>>}
    \cup {<<OtherRow(pl, t, 0)>> : pl \in OtherPlaces, t \in OtherTexts}
    \cup {<<OtherRow(pl, t1, 0), OtherRow(pl, t2, 1)>> :
              pl \in {[visit_id |-> 1, top |-> 0, left |-> l] : l \in 0..1},
              t1 \in OtherTexts, t2 \in {<<>>, <<"7", "s">>}}

\* a crawl without any segment, or the observed element and other rows
Tables ==
    {<<>>} \cup
    {ElementRows(n, m, o.gap, o.renode, o.newest_first) \o other :
        n \in 0..MaxCountdown, m \in 0..1, o \in Observings, other \in OtherRows}

\* a row of a grouped table pickled by an earlier run: an element of visit 1
\* at top 0 with the template "DPNUMs"
GroupedRow(left, n_nodes, gate, dec_, dec_mode_) ==
    [visit_id_                       |-> 1,
     top_                            |-> 0,
     left_                           |-> left,
     inner_processed_                |-> DPNUM \o <<"s">>,
     node_id_num_unique              |-> n_nodes,
     time_stamp_ts_check             |-> gate,
     inner_digits_is_decreasing      |-> dec_,
     inner_digits_is_decreasing_mode |-> dec_mode_,
     site_url_first                  |-> SiteUrl(1)]

\* grouped tables found pickled: one group with any flags, alone or beside a
\* group with every flag set
CachedTables ==
    {{}} \cup {{GroupedRow(0, 1, a, b, c)} : a \in BOOLEAN, b \in BOOLEAN, c \in BOOLEAN}
         \cup {{GroupedRow(0, 1, a, b, c), GroupedRow(1, 2, TRUE, TRUE, TRUE)} :
                  a \in BOOLEAN, b \in BOOLEAN, c \in BOOLEAN}

\* the crawls beside which a pickled grouped table is found
CachedDbs == {<<>>, ElementRows(MaxCountdown, 0, TicksPerSecond, FALSE, FALSE)}

-----------------------------------------------------------------------------
(* Specification of the pipeline over one crawl *)

NoSeries ==
    /\ series = <<>>
    /\ dec = Unset
    /\ dec_mode = Unset

NoPipeline ==
    /\ db = <<>>
    /\ segments_pickle = NoFile
    /\ grouped_pickle = NoFile
    /\ timer_urls = NoFile
    /\ segments = <<>>
    /\ limit_arg = 0
    /\ outcome = "none"
    /\ timers = {}
    /\ grouped_segments = {}

Limits == {0, 6}

Init ==
    /\ \/ db \in Tables /\ grouped_pickle = NoFile
       \/ db \in CachedDbs /\ \E t \in CachedTables : grouped_pickle = File(t)
    /\ segments_pickle = NoFile
    /\ timer_urls = NoFile
    /\ segments = <<>>
    /\ limit_arg = 0
    /\ outcome = "none"
    /\ timers = {}
    /\ grouped_segments = {}
    /\ NoSeries

GetTimersCall == \E disable_cache \in BOOLEAN :
    GetTimers(disable_cache) /\ UNCHANGED series_vars

DetectTimersCall == \E limit \in Limits :
    DetectTimers(limit) /\ UNCHANGED series_vars

LoadSegmentsCall == \E check_cache \in BOOLEAN, dump_pickle \in BOOLEAN :
    LoadSegments(check_cache, dump_pickle) /\ UNCHANGED series_vars

DumpTimerUrlsCall == DumpTimerUrls /\ UNCHANGED series_vars

Next == GetTimersCall \/ DetectTimersCall \/ LoadSegmentsCall \/ DumpTimerUrlsCall

Spec == Init /\ [][Next]_vars

-----------------------------------------------------------------------------
(* Specification of the heuristics as called on one series *)

SeriesInit ==
    /\ \/ series \in ShortSeries
       \/ \E us \in Walks : series = Displayed(us)
       \/ \E p1 \in Phases, p2 \in Phases, p3 \in Phases :
              series = Displayed(Unroll(p1) \o Unroll(p2) \o Unroll(p3))
       \/ \E p1 \in RolloverPhases, p2 \in RolloverPhases :
              series = DisplayedUnpadded(Unroll(p1) \o Unroll(p2))
    /\ dec = Unset
    /\ dec_mode = Unset
    /\ NoPipeline

CallIsDecreasing ==
    /\ dec = Unset
    /\ dec' = is_decreasing(series)
    /\ UNCHANGED <<series, dec_mode, pipeline_vars>>

CallIsDecreasingMode ==
    /\ dec_mode = Unset
    /\ dec_mode' \in is_decreasing_mode(series)
    /\ UNCHANGED <<series, dec, pipeline_vars>>

SeriesNext == CallIsDecreasing \/ CallIsDecreasingMode

SeriesSpec == SeriesInit /\ [][SeriesNext]_vars

-----------------------------------------------------------------------------
(* Specification of the heuristics on a series that gains repeated
   observations after it was classified *)

\* most observations of an unchanged value within a series
MaxRepeats == 6

\* a run of increases and a run of decreases in either order, without a
\* repeated value; and as many increases as decreases, MIN_NEG_MODE_CNT of
\* each, the increases first or last, with one further decrease
RepeatSeeds ==
    {Displayed(Unroll([n |-> a, u |-> [blank |-> FALSE, d |-> 1]])
               \o Unroll([n |-> b, u |-> [blank |-> FALSE, d |-> -1]])) :
        a \in 0..1, b \in 0..MaxRun}
    \cup
    {Displayed(Unroll([n |-> b, u |-> [blank |-> FALSE, d |-> -1]])
               \o Unroll([n |-> a, u |-> [blank |-> FALSE, d |-> 1]])) :
        a \in 0..1, b \in 0..MaxRun}
    \cup
    {Displayed(Unroll([n |-> MIN_NEG_MODE_CNT, u |-> [blank |-> FALSE, d |-> d1]])
               \o Unroll([n |-> MIN_NEG_MODE_CNT, u |-> [blank |-> FALSE, d |-> 0 - d1]])
               \o Unroll([n |-> 1, u |-> [blank |-> FALSE, d |-> -2]])) :
        d1 \in {-1, 1}}

\* the series with its value at position i observed once more
Repeated(s, i) == SubSeq(s, 1, i) \o <<s[i]>> \o SubSeq(s, i + 1, Len(s))

\* how many observations of s repeat the value before them
Repeats(s) == Cardinality({k \in 1..(Len(s) - 1) : s[k] = s[k + 1]})

RepeatInit ==
    /\ series \in RepeatSeeds
    /\ dec = Unset
    /\ dec_mode = Unset
    /\ NoPipeline

\* the element is observed once more, unchanged since observation i
ObserveAgain ==
    /\ dec # Unset /\ dec_mode # Unset
    /\ Repeats(series) < MaxRepeats
    /\ \E i \in DOMAIN series : series' = Repeated(series, i)
    /\ UNCHANGED <<dec, dec_mode, pipeline_vars>>

RepeatNext == CallIsDecreasing \/ CallIsDecreasingMode \/ ObserveAgain

RepeatSpec == RepeatInit /\ [][RepeatNext]_vars

-----------------------------------------------------------------------------
(* Specification of the preprocessor as called on a frame of one text *)

\* longest inner text of the exhaustive family
MaxText == 4

\* characters of the texts: two digits, a letter, a letter of the placeholder
TextChars == {"0", "9", "a", "M"}

Texts == UNION {[1..n -> TextChars] : n \in 0..MaxText}

PreprocessInit ==
    /\ \E x \in Texts : db = <<TableRow(1, 1, "DIV", 0, 0, x, 0)>>
    /\ segments_pickle = NoFile
    /\ grouped_pickle = NoFile
    /\ timer_urls = NoFile
    /\ segments = <<>>
    /\ limit_arg = 0
    /\ outcome = "none"
    /\ timers = {}
    /\ grouped_segments = {}
    /\ NoSeries

\* preprocess_segments(segments) called on a frame holding every row of the
\* table
PreprocessSegments ==
    /\ outcome = "none"
    /\ segments' = preprocess_segments(all_rows(db))
    /\ outcome' = "preprocessed"
    /\ UNCHANGED <<db, segments_pickle, grouped_pickle, timer_urls, limit_arg,
                   timers, grouped_segments, series_vars>>

PreprocessNext == PreprocessSegments

PreprocessSpec == PreprocessInit /\ [][PreprocessNext]_vars

-----------------------------------------------------------------------------
(* Vocabulary of the claims about one series, stated from the series itself *)

SeriesParses == \A k \in DOMAIN series : ~int_raises(series[k])

RECURSIVE ValueDiffs(_)
ValueDiffs(s) ==
    IF Len(s) < 2 THEN <<>>
    ELSE <<digits_value(s[2]) - digits_value(s[1])>> \o ValueDiffs(Tail(s))

Negatives(ds) == Cardinality({k \in DOMAIN ds : ds[k] < 0})

Positives(ds) == Cardinality({k \in DOMAIN ds : ds[k] > 0})

Occurrences(ds, v) == Cardinality({k \in DOMAIN ds : ds[k] = v})

\* the most frequent values of ds (several when counts tie)
ModesOf(ds) ==
    LET vs == {ds[k] : k \in DOMAIN ds}
    IN  {v \in vs : \A w \in vs : Occurrences(ds, w) <= Occurrences(ds, v)}

\* how often the most frequent negative value of ds occurs (0 without one)
NegModeCountOf(ds) ==
    LET cs == {Occurrences(ds, v) : v \in {ds[k] : k \in {i \in DOMAIN ds : ds[i] < 0}}}
    IN  IF cs = {} THEN 0 ELSE CHOOSE c \in cs : \A d \in cs : d <= c

Diffs == ValueDiffs(series)

NNeg == Negatives(Diffs)

NPos == Positives(Diffs)

Modes == ModesOf(Diffs)

NegModeCount == NegModeCountOf(Diffs)

DistinctStrings == Cardinality({series[k] : k \in DOMAIN series})

-----------------------------------------------------------------------------
\* C2: Heuristic A is false with fewer than 2 values or nNeg < 5, true with
\* nNeg >= 5 and nPos = 0, and otherwise true exactly when nNeg / nPos > 5
\* (strict), so a ratio of exactly 5 gives false.
C2_RatioTest ==
    (dec # Unset /\ (Len(series) < 2 \/ SeriesParses)) =>
        /\ dec = IF Len(series) < 2 \/ NNeg < 5 THEN "False"
                 ELSE IF NPos = 0 THEN "True"
                 ELSE IF NNeg > 5 * NPos THEN "True" ELSE "False"
        /\ (Len(series) >= 2 /\ NPos > 0 /\ NNeg = 5 * NPos) => dec = "False"

\* a series with 10 decreases and 2 increases (ratio exactly 5) was classified
C2_Witness ==
    /\ Len(series) >= 2 /\ SeriesParses
    /\ NNeg = 10 /\ NPos = 2
    /\ dec = "False"

\* C3: Heuristic B follows its nine steps in order.  Where a positive and a
\* non-positive value tie for most frequent, step 6 may go either way.
C3_ModeTest ==
    (dec_mode # Unset /\ (Len(series) < 2 \/ SeriesParses)) =>
        LET ds    == Diffs
            nneg  == Negatives(ds)
            npos  == Positives(ds)
            modes == ModesOf(ds)
            rest  == IF NegModeCountOf(ds) < 5 THEN "False"
                     ELSE IF nneg > npos THEN "True" ELSE "False"
        IN  IF Len(series) < 2 \/ DistinctStrings < 5 THEN dec_mode = "False"
            ELSE IF nneg < 5 THEN dec_mode = "False"
            ELSE IF npos = 0 THEN dec_mode = "True"
            ELSE IF \A m \in modes : m > 0 THEN dec_mode = "False"
            ELSE IF \E m \in modes : m > 0 THEN dec_mode \in {"False", rest}
            ELSE dec_mode = rest

\* 0 is the single most frequent diff, there are positive diffs, and the
\* series passed every later step
C3_Witness ==
    /\ Len(series) >= 2 /\ SeriesParses
    /\ Modes = {0} /\ NPos > 0 /\ NNeg >= 5
    /\ dec_mode = "True"

\* C4 as stated: whenever Heuristic B is true, Heuristic A is true.
C4_ModeImpliesRatio ==
    (dec # Unset /\ dec_mode = "True") => dec = "True"

\* C4 amended: Heuristic B true implies Heuristic A true for every series
\* without positive diffs or with more than 5 negative diffs per positive one.
C4_ModeImpliesRatioWhenDominant ==
    (dec # Unset /\ dec_mode = "True" /\ (NPos = 0 \/ NNeg > 5 * NPos)) =>
        dec = "True"

\* both heuristics accepted a series that has a positive diff
C4_Witness ==
    /\ dec_mode = "True" /\ dec = "True"
    /\ SeriesParses /\ NPos > 0 /\ NNeg > 5 * NPos

\* C8: an empty inner_text gets empty inner_digits, and on a group whose
\* digit strings are all empty, of any size, both heuristics return false.
C8_EmptyGroupIsFalse ==
    /\ remove_non_digits(<<>>) = <<>>
    /\ (Len(series) >= 1 /\ \A k \in DOMAIN series : series[k] = <<>>) =>
           /\ dec # Unset => dec = "False"
           /\ dec_mode # Unset => dec_mode = "False"

\* C9: with an unparseable digit string among valid ones the heuristics
\* still return a result, that of the series without the absent values.
C9_AbsentValuesSkipped ==
    LET present == SelectSeq(series, LAMBDA x : ~int_raises(x))
    IN  (~SeriesParses /\ present # <<>>) =>
            /\ dec # Unset => dec = is_decreasing(present)
            /\ dec_mode # Unset => dec_mode \in is_decreasing_mode(present)

-----------------------------------------------------------------------------
(* Vocabulary of the claims about the pipeline, stated from the tables *)

\* the last call was one that groups a frame
Called == outcome \in {"computed", "detected", TypeError, ValueError}

\* and it returned its tables
Returned == outcome \in {"computed", "detected"}

\* the observations the last such call grouped
Analysed == IF limit_arg # 0 THEN head(segments, limit_arg) ELSE segments

Keys == {group_key(Analysed[k]) : k \in DOMAIN Analysed}

\* observation r belongs to the group of table row g
InGroup(r, g) ==
    /\ r.visit_id = g.visit_id_
    /\ r.top = g.top_
    /\ r.left = g.left_
    /\ r.inner_processed = g.inner_processed_

Members(g) == {k \in DOMAIN Analysed : InGroup(Analysed[k], g)}

\* the whole seconds s in which some observation with the key was made
SecondsOf(key) ==
    LET ticks == {Analysed[k].time_stamp :
                     k \in {i \in DOMAIN Analysed : group_key(Analysed[i]) = key}}
    IN  {s \in 0..(CHOOSE t \in ticks : \A u \in ticks : u <= t) :
            \E t \in ticks : s * TicksPerSecond <= t /\ t < (s + 1) * TicksPerSecond}

Swap(q, i, j) ==
    [k \in DOMAIN q |-> IF k = i THEN q[j] ELSE IF k = j THEN q[i] ELSE q[k]]

\* the digit strings of a group as the aggregation hands them over
Handed(rows, key) == column_inner_digits(group_rows(rows, key))

-----------------------------------------------------------------------------
\* C1: a group is in the timers table iff its three flags are all true, both
\* when detect_timers computed the table and when get_timers served it from
\* the cache; the timers are a subset of the grouped table.
C1_TimersAreTheFlaggedGroups ==
    /\ outcome \in {"computed", "detected", "cached"} =>
           /\ timers \subseteq grouped_segments
           /\ \A g \in grouped_segments :
                  g \in timers <=> /\ g.inner_digits_is_decreasing
                                   /\ g.inner_digits_is_decreasing_mode
                                   /\ g.time_stamp_ts_check
    /\ Called =>
           /\ Returned
           /\ \A key \in Keys : \E g \in grouped_segments :
                  \A k \in DOMAIN Analysed :
                      group_key(Analysed[k]) = key => InGroup(Analysed[k], g)

\* C5: the digits handed to the heuristics are ordered by time stamp, so
\* that every group gets the same two results on any permutation of the
\* same observations (here: any exchange of two rows).
C5_RowOrderIrrelevant ==
    (Called /\ limit_arg = 0) =>
        \A i \in DOMAIN segments : \A j \in (i + 1)..Len(segments) :
            \A key \in Keys :
                LET here  == Handed(segments, key)
                    there == Handed(Swap(segments, i, j), key)
                IN  /\ is_decreasing(there) = is_decreasing(here)
                    /\ is_decreasing_mode(there) = is_decreasing_mode(here)

\* C6: every observation lands in exactly one group, the group of its four
\* key fields; no group is empty; node_id_num_unique counts the distinct
\* node ids of the group's observations.
C6_GroupingIsAPartitionByKey ==
    Called =>
        /\ Returned
        /\ \A k \in DOMAIN Analysed :
               Cardinality({g \in grouped_segments : InGroup(Analysed[k], g)}) = 1
        /\ \A g \in grouped_segments :
               /\ Members(g) # {}
               /\ g.node_id_num_unique =
                      Cardinality({Analysed[k].node_id : k \in Members(g)})

\* C7: the gate of a group is true iff its observations fall into at least 5
\* distinct whole seconds; a group with fewer is never a timer.
C7_GateCountsWholeSeconds ==
    Called =>
        \A key \in Keys :
            /\ ts_check(column_time_stamp(group_rows(Analysed, key)))
                   = PyBool(Cardinality(SecondsOf(key)) >= 5)
            /\ Cardinality(SecondsOf(key)) < 5 =>
                   \A g \in timers : \A k \in DOMAIN Analysed :
                       group_key(Analysed[k]) = key => ~InGroup(Analysed[k], g)

-----------------------------------------------------------------------------
(* Claims about the counting of the diffs *)

\* C12: the exclusion list never excludes a diff.  In both heuristics n_negs
\* is the number of strictly negative diffs, -59, -5 and -9 among them, and
\* n_pos the number of strictly positive diffs, +50, +59, +5 and +9 among
\* them; the outcomes follow these counts.
C12_ExclusionNeverExcludes ==
    (Len(series) >= 2 /\ SeriesParses) =>
        LET ds   == differences(series)
            nneg == Cardinality({k \in DOMAIN ds : ds[k] < 0})
            npos == Cardinality({k \in DOMAIN ds : ds[k] > 0})
        IN  /\ n_negs_of(ds) = nneg
            /\ n_pos_of(ds) = npos
            /\ dec # Unset =>
                   (dec = "True" <=> (nneg >= 5 /\ nneg > 5 * npos))
            /\ (dec_mode # Unset /\ npos = 0 /\ DistinctStrings >= 5) =>
                   (dec_mode = "True" <=> nneg >= 5)
            /\ dec_mode = "True" => (nneg >= 5 /\ nneg > npos)

\* every decrease is a jump of -59, there is a jump of +50, and both
\* heuristics accepted the series
C12_Witness ==
    /\ Len(series) >= 2 /\ SeriesParses
    /\ \A k \in DOMAIN Diffs : Diffs[k] \in {-59, 50}
    /\ NNeg = 6 /\ NPos = 1
    /\ dec = "True" /\ dec_mode = "True"

\* the most frequent value of ds that occurs first in ds
FirstModeOf(ds) ==
    LET modes == ModesOf(ds)
    IN  ds[CHOOSE i \in DOMAIN ds :
              ds[i] \in modes /\ \A j \in 1..(i - 1) : ds[j] \notin modes]

\* C13: the mode of Heuristic B is the most frequent diff, and of several
\* equally frequent diffs the one encountered first.  Where a positive and a
\* non-positive diff tie, the one that occurs first decides step 6, and the
\* result is a function of the series alone.
C13_TieGoesToFirstEncountered ==
    (dec_mode # Unset /\ Len(series) >= 2 /\ SeriesParses) =>
        LET ds    == Diffs
            nneg  == Negatives(ds)
            npos  == Positives(ds)
            first == FirstModeOf(ds)
            rest  == IF NegModeCountOf(ds) < 5 THEN "False"
                     ELSE IF nneg > npos THEN "True" ELSE "False"
        IN  /\ most_common(differences(series)) = {first}
            /\ (DistinctStrings >= 5 /\ nneg >= 5 /\ npos > 0) =>
                   dec_mode = IF first > 0 THEN "False" ELSE rest

\* C14: on a series of non-empty digit strings without a strictly positive
\* diff both heuristics return the same result; a series Heuristic A accepts
\* has at least 6 distinct values, so the floor of Heuristic B lets it pass.
C14_AgreeWithoutIncrease ==
    (dec # Unset /\ dec_mode # Unset /\ SeriesParses /\ NPos = 0) =>
        /\ dec = dec_mode
        /\ dec = "True" => DistinctStrings >= 6

\* five decreases and some repeats, no increase, exactly 6 distinct values,
\* accepted by both heuristics
C14_Witness ==
    /\ Len(series) >= 2 /\ SeriesParses
    /\ NPos = 0 /\ NNeg = 5 /\ Len(series) > 6
    /\ DistinctStrings = 6
    /\ dec = "True" /\ dec_mode = "True"

-----------------------------------------------------------------------------
(* Claims about repeated observations *)

\* C15: Heuristic A ignores diffs of 0.  The result it gave for a digit
\* series is the result it gives for the series with any repeated
\* observations of its values inserted.  (Heuristic B can change: see the
\* witness, where 0 became the most frequent diff.)
C15_RepeatsDoNotChangeRatioTest ==
    dec # Unset => is_decreasing(series) = dec

\* repeated observations were inserted, Heuristic A gives what it gave
\* before, and Heuristic B, which rejected the series, now accepts it
\* because 0 became the most frequent diff
C15_Witness ==
    /\ Repeats(series) = MaxRepeats
    /\ Modes = {0}
    /\ dec = "False" /\ is_decreasing(series) = "False"
    /\ dec_mode = "False" /\ is_decreasing_mode(series) = {"True"}

-----------------------------------------------------------------------------
(* Claims about the preprocessor *)

\* C11: collapsing the digit runs of a text that was already collapsed gives
\* the same text, and a collapsed text holds no digit character.
C11_CollapseIsIdempotent ==
    \A k \in DOMAIN segments :
        LET t == segments[k].inner_processed
        IN  /\ t = replace_digit_runs(segments[k].inner_text)
            /\ replace_digit_runs(t) = t
            /\ \A i \in DOMAIN t : t[i] \notin DigitChars

\* a text with two digit runs, the first of two digits, was collapsed
C11_Witness ==
    /\ outcome = "preprocessed"
    /\ \E k \in DOMAIN segments :
           /\ segments[k].inner_text = <<"0", "9", "a", "9">>
           /\ segments[k].inner_processed = DPNUM \o <<"a">> \o DPNUM

=============================================================================
